---- MODULE Spec2Model ----
(***************************************************************************)
(* The authorization core of fastapi-starter: the Casbin enforcer wrapper  *)
(* (app/core/casbin_enforcer.py), the ABAC and ReBAC services              *)
(* (app/services/abac_service.py, app/services/rebac_service.py), the      *)
(* aggregator (app/services/authorization_service.py), the table           *)
(* casbin_rule behind the enforcers, and the deletion of accounts          *)
(* (app/services/user_service.py, app/api/v1/endpoints/users.py).          *)
(*                                                                         *)
(* Every operation of the program is one action; each action records what  *)
(* the operation handed back to its caller in the variable last.  The      *)
(* check_permission call is split at its awaits (variable call), so that   *)
(* administration operations can run between its three evaluations.        *)
(***************************************************************************)
EXTENDS Integers, Sequences, FiniteSets, TLC

VARIABLES
    rbacG,          \* rbac_enforcer, in memory: grouping rules <<user, role>>
    rbacP,          \* rbac_enforcer, in memory: policy rules <<role, resource, action>>
    policies,       \* table abac_policies: sequence of rows, in id order
    policySeq,      \* the id sequence of abac_policies (ids handed out so far)
    userAttrs,      \* table user_attributes: sequence of rows, in id order
    resAttrs,       \* table resource_attributes: sequence of rows, in id order
    pending,        \* per database session: the attribute upsert between its SELECT and its COMMIT
    relationships,  \* table resource_relationships: sequence of rows, in id order
    relSeq,         \* the id sequence of resource_relationships
    rebacG,         \* rebac_enforcer, in memory: grouping rules <<subject, resource>>
    rebacP,         \* rebac_enforcer, in memory: policy rules, as loaded at start-up
    abacP,          \* abac_enforcer, in memory: the rules it loaded at start-up
    casbin_rule,    \* table casbin_rule, the one table behind the three adapters
    userRows,       \* table users: by id, whether the row is there and its is_active
    call,           \* the check_permission call in flight, or its end
    last            \* what the last completed operation handed to its caller

rbacVars == <<rbacG, rbacP>>
abacVars == <<policies, policySeq, userAttrs, resAttrs, pending>>
rebacVars == <<relationships, relSeq, rebacG, rebacP>>
storeVars == <<abacP, casbin_rule>>
vars == <<rbacG, rbacP, policies, policySeq, userAttrs, resAttrs, pending, relationships,
          relSeq, rebacG, rebacP, abacP, casbin_rule, userRows, call, last>>

----------------------------------------------------------------------------
(* Bounds of the model *)

MaxEdges == 3       \* grouping rules held by the RBAC enforcer
MaxGrants == 2      \* policy rules held by the RBAC enforcer
MaxPolicies == 2    \* rows ever inserted into abac_policies
MaxAttrRows == 2    \* rows of user_attributes, and of resource_attributes

----------------------------------------------------------------------------
(* Python values: None, str, int, bool, list *)

None == [t |-> "none", v |-> 0]
S(s) == [t |-> "str", v |-> s]
I(n) == [t |-> "int", v |-> n]
B(b) == [t |-> "bool", v |-> b]
L(q) == [t |-> "list", v |-> q]

Returned(r) == [outcome |-> "returned", result |-> r]
Raised(e) == [outcome |-> "raised", result |-> e]

\* No check_permission call has been made.
Idle == [pc |-> "idle", req |-> <<>>, results |-> <<>>, granted_by |-> <<>>,
         outcome |-> "none", has_permission |-> FALSE]

----------------------------------------------------------------------------
(* RBAC: the enforcer wrapper, app/core/casbin_enforcer.py *)

\* g(r.sub, p.sub): the roles reached from a subject through grouping rules,
\* the subject itself included.
RECURSIVE GroupClosure(_, _, _)
GroupClosure(G, frontier, visited) ==
    IF frontier = {} THEN visited
    ELSE LET seen == visited \cup frontier
             next == {e[2] : e \in {x \in G : x[1] \in frontier}} \ seen
         IN GroupClosure(G, next, seen)

\* rbac_enforcer.enforce(user, resource, action) under the RBAC model:
\* m = g(r.sub, p.sub) && r.obj == p.obj && r.act == p.act
rbac_enforce(G, P, user, resource, action) ==
    \E g \in GroupClosure(G, {user}, {}) : <<g, resource, action>> \in P

\* check_rbac_permission: the enforcer's verdict; an exception of the
\* enforcer is printed and turned into False.
check_rbac_permission(user, resource, action) ==
    rbac_enforce(rbacG, rbacP, user, resource, action)

\* rbac_enforcer.get_roles_for_user: the direct roles only.
get_roles_for_user(user) == {e[2] : e \in {x \in rbacG : x[1] = user}}

\* The rows of casbin_rule that hold an enforcer's rules: <<ptype, rule>>.
Rows(G, P) == {<<"g", e>> : e \in G} \cup {<<"p", t>> : t \in P}

\* The rules of one ptype among the rows of casbin_rule.
RulesOf(ptype, rows) == {r[2] : r \in {x \in rows : x[1] = ptype}}

\* enforcer.save_policy() through Adapter(engine): every row of casbin_rule
\* is deleted and the rules the enforcer holds in memory are inserted.
save_policy(G, P) == Rows(G, P)

\* _save_policy_sync: rbac_enforcer, abac_enforcer and rebac_enforcer save
\* in this order, each through its own adapter on the one table.
_save_policy_sync(G, P) ==
    LET after_rbac == save_policy(G, P)
        after_abac == save_policy({}, abacP)
        after_rebac == save_policy(rebacG, rebacP)
    IN after_rebac

add_role_for_user(user, role) ==
    LET result == <<user, role>> \notin rbacG
    IN /\ result => Cardinality(rbacG) < MaxEdges
       /\ rbacG' = IF result THEN rbacG \cup {<<user, role>>} ELSE rbacG
       /\ casbin_rule' = IF result THEN save_policy(rbacG \cup {<<user, role>>}, rbacP)
                          ELSE casbin_rule
       /\ last' = [op |-> "add_role_for_user", args |-> <<user, role>>] @@ Returned(result)
       /\ UNCHANGED <<rbacP, abacVars, rebacVars, call, abacP, userRows>>

\* A delete_role_for_user that reports the removal and keeps the edge.
delete_role_for_user_keeps_edge(user, role) ==
    LET result == <<user, role>> \in rbacG
    IN /\ rbacG' = rbacG
       /\ casbin_rule' = IF result THEN save_policy(rbacG, rbacP) ELSE casbin_rule
       /\ last' = [op |-> "delete_role_for_user", args |-> <<user, role>>] @@ Returned(result)
       /\ UNCHANGED <<rbacP, abacVars, rebacVars, call, abacP, userRows>>

delete_role_for_user(user, role) ==
    LET result == <<user, role>> \in rbacG
    IN /\ rbacG' = rbacG \ {<<user, role>>}
       /\ casbin_rule' = IF result THEN save_policy(rbacG \ {<<user, role>>}, rbacP)
                          ELSE casbin_rule
       /\ last' = [op |-> "delete_role_for_user", args |-> <<user, role>>] @@ Returned(result)
       /\ UNCHANGED <<rbacP, abacVars, rebacVars, call, abacP, userRows>>

add_permission_for_role(role, resource, action) ==
    LET result == <<role, resource, action>> \notin rbacP
    IN /\ result => Cardinality(rbacP) < MaxGrants
       /\ rbacP' = IF result THEN rbacP \cup {<<role, resource, action>>} ELSE rbacP
       /\ casbin_rule' = IF result
                          THEN save_policy(rbacG, rbacP \cup {<<role, resource, action>>})
                          ELSE casbin_rule
       /\ last' = [op |-> "add_permission_for_role", args |-> <<role, resource, action>>]
                    @@ Returned(result)
       /\ UNCHANGED <<rbacG, abacVars, rebacVars, call, abacP, userRows>>

delete_permission_for_role(role, resource, action) ==
    LET result == <<role, resource, action>> \in rbacP
    IN /\ rbacP' = rbacP \ {<<role, resource, action>>}
       /\ casbin_rule' = IF result
                          THEN save_policy(rbacG, rbacP \ {<<role, resource, action>>})
                          ELSE casbin_rule
       /\ last' = [op |-> "delete_permission_for_role", args |-> <<role, resource, action>>]
                    @@ Returned(result)
       /\ UNCHANGED <<rbacG, abacVars, rebacVars, call, abacP, userRows>>

\* The subject is a member of itself through the grouping rules.
OnMembershipCycle(user) ==
    \E e \in rbacG : e[1] = user /\ user \in GroupClosure(rbacG, {e[2]}, {})

\* An rbac_check_permission that fails for a subject on a membership cycle.
rbac_check_permission_no_cycles(user, resource, action) ==
    /\ last' = [op |-> "check_rbac_permission", args |-> <<user, resource, action>>]
                 @@ (IF OnMembershipCycle(user) THEN Raised("RecursionError")
                     ELSE Returned(check_rbac_permission(user, resource, action)))
    /\ UNCHANGED <<rbacVars, abacVars, rebacVars, call, storeVars, userRows>>

\* An rbac_check_permission that saves the policy of the three enforcers
\* after it has answered.
rbac_check_permission_saving(user, resource, action) ==
    /\ last' = [op |-> "check_rbac_permission", args |-> <<user, resource, action>>]
                 @@ Returned(check_rbac_permission(user, resource, action))
    /\ casbin_rule' = save_policy(rebacG, rebacP)
    /\ UNCHANGED <<rbacVars, abacVars, rebacVars, call, abacP, userRows>>

\* POST /rbac/check-permission: check_rbac_permission_async, a read.
rbac_check_permission(user, resource, action) ==
    /\ last' = [op |-> "check_rbac_permission", args |-> <<user, resource, action>>]
                 @@ Returned(check_rbac_permission(user, resource, action))
    /\ UNCHANGED <<rbacVars, abacVars, rebacVars, call, storeVars, userRows>>

\* GET /rbac/roles/user/{username}: get_roles_for_user, a read.
rbac_get_roles_for_user(user) ==
    /\ last' = [op |-> "get_roles_for_user", args |-> <<user>>]
                 @@ Returned(get_roles_for_user(user))
    /\ UNCHANGED <<rbacVars, abacVars, rebacVars, call, storeVars, userRows>>

----------------------------------------------------------------------------
(* RBAC administration: app/api/v1/endpoints/rbac.py *)

\* The response of an endpoint: its HTTP status.
Http(status) == [outcome |-> "http", result |-> status]

\* POST /rbac/roles/assign
assign_role_to_user(username, role) ==
    IF role \in get_roles_for_user(username)
    THEN /\ last' = [op |-> "assign_role_to_user", args |-> <<username, role>>] @@ Http(409)
         /\ UNCHANGED <<rbacVars, abacVars, rebacVars, call, storeVars, userRows>>
    ELSE /\ Cardinality(rbacG) < MaxEdges
         /\ rbacG' = rbacG \cup {<<username, role>>}
         /\ casbin_rule' = save_policy(rbacG \cup {<<username, role>>}, rbacP)
         /\ last' = [op |-> "assign_role_to_user", args |-> <<username, role>>] @@ Http(200)
         /\ UNCHANGED <<rbacP, abacVars, rebacVars, call, abacP, userRows>>

\* A revoke_role_from_user that looks for the role among all the roles the
\* user reaches, and fails when the direct rule is not there to remove.
revoke_role_from_user_implicit(username, role) ==
    IF role \notin GroupClosure(rbacG, get_roles_for_user(username), {})
    THEN /\ last' = [op |-> "revoke_role_from_user", args |-> <<username, role>>] @@ Http(404)
         /\ UNCHANGED <<rbacVars, abacVars, rebacVars, call, storeVars, userRows>>
    ELSE /\ rbacG' = rbacG \ {<<username, role>>}
         /\ casbin_rule' = IF <<username, role>> \in rbacG
                            THEN save_policy(rbacG \ {<<username, role>>}, rbacP)
                            ELSE casbin_rule
         /\ last' = [op |-> "revoke_role_from_user", args |-> <<username, role>>]
                    @@ Http(IF <<username, role>> \in rbacG THEN 200 ELSE 500)
         /\ UNCHANGED <<rbacP, abacVars, rebacVars, call, abacP, userRows>>

\* DELETE /rbac/roles/revoke
revoke_role_from_user(username, role) ==
    IF role \notin get_roles_for_user(username)
    THEN /\ last' = [op |-> "revoke_role_from_user", args |-> <<username, role>>] @@ Http(404)
         /\ UNCHANGED <<rbacVars, abacVars, rebacVars, call, storeVars, userRows>>
    ELSE /\ rbacG' = rbacG \ {<<username, role>>}
         /\ casbin_rule' = save_policy(rbacG \ {<<username, role>>}, rbacP)
         /\ last' = [op |-> "revoke_role_from_user", args |-> <<username, role>>] @@ Http(200)
         /\ UNCHANGED <<rbacP, abacVars, rebacVars, call, abacP, userRows>>

\* POST /rbac/permissions/assign: a triple the role already has is not added
\* (add_permission_for_role returns False), and the answer is 400.
assign_permission_to_role(role, resource, action) ==
    IF <<role, resource, action>> \in rbacP
    THEN /\ last' = [op |-> "assign_permission_to_role", args |-> <<role, resource, action>>]
                    @@ Http(400)
         /\ UNCHANGED <<rbacVars, abacVars, rebacVars, call, storeVars, userRows>>
    ELSE /\ Cardinality(rbacP) < MaxGrants
         /\ rbacP' = rbacP \cup {<<role, resource, action>>}
         /\ casbin_rule' = save_policy(rbacG, rbacP \cup {<<role, resource, action>>})
         /\ last' = [op |-> "assign_permission_to_role", args |-> <<role, resource, action>>]
                    @@ Http(200)
         /\ UNCHANGED <<rbacG, abacVars, rebacVars, call, abacP, userRows>>

\* DELETE /rbac/permissions/revoke: delete_permission_for_role, which saves
\* the RBAC enforcer, and then save_policy() of the three enforcers.
revoke_permission_from_role(role, resource, action) ==
    IF <<role, resource, action>> \notin rbacP
    THEN /\ last' = [op |-> "revoke_permission_from_role", args |-> <<role, resource, action>>]
                    @@ Http(404)
         /\ UNCHANGED <<rbacVars, abacVars, rebacVars, call, storeVars, userRows>>
    ELSE /\ rbacP' = rbacP \ {<<role, resource, action>>}
         /\ casbin_rule' = _save_policy_sync(rbacG, rbacP \ {<<role, resource, action>>})
         /\ last' = [op |-> "revoke_permission_from_role", args |-> <<role, resource, action>>]
                    @@ Http(200)
         /\ UNCHANGED <<rbacG, abacVars, rebacVars, call, abacP, userRows>>

----------------------------------------------------------------------------
(* Python's built-ins as abac_service.py uses them *)

Digit == <<"0", "1", "2", "3", "4", "5", "6", "7", "8", "9">>

\* str(n) of an int
RECURSIVE IntStr(_)
IntStr(n) ==
    IF n < 0 THEN "-" \o IntStr(0 - n)
    ELSE IF n < 10 THEN Digit[n + 1]
    ELSE IntStr(n \div 10) \o Digit[(n % 10) + 1]

MaxNum == 12        \* the integers whose decimal spelling the model parses

\* The decimal spellings int() reads: <<str(n), n>>.
IntSpellings == {<<IntStr(n), n>> : n \in (0 - MaxNum)..MaxNum}

\* The integer a string spells, as int() reads it; {} when int() raises.
IntOfStr(s) == {p[2] : p \in {q \in IntSpellings : q[1] = s}}

\* The strings float() reads that int() does not (the values are whole).
FloatSpellings == {<<"7.0", 7>>, <<"1e1", 10>>}

\* bool(x), the test of "if x" and of "x or y"
Truthy(x) ==
    CASE x.t = "none" -> FALSE
      [] x.t = "str"  -> x.v # ""
      [] x.t = "int"  -> x.v # 0
      [] x.t = "bool" -> x.v
      [] x.t = "list" -> Len(x.v) > 0

\* x or y
PyOr(x, y) == IF Truthy(x) THEN x ELSE y

\* str(x)
PyStr(x) ==
    CASE x.t = "none" -> "None"
      [] x.t = "str"  -> x.v
      [] x.t = "int"  -> IntStr(x.v)
      [] x.t = "bool" -> IF x.v THEN "True" ELSE "False"
      [] x.t = "list" -> "[...]"

\* float(x): [ok, f]; ok is FALSE where float() raises ValueError or TypeError.
PyFloat(x) ==
    CASE x.t = "int"  -> [ok |-> TRUE, f |-> x.v]
      [] x.t = "bool" -> [ok |-> TRUE, f |-> IF x.v THEN 1 ELSE 0]
      [] x.t = "str"  ->
            IF IntOfStr(x.v) # {}
            THEN [ok |-> TRUE, f |-> CHOOSE n \in IntOfStr(x.v) : TRUE]
            ELSE IF \E p \in FloatSpellings : p[1] = x.v
            THEN [ok |-> TRUE, f |-> (CHOOSE p \in FloatSpellings : p[1] = x.v)[2]]
            ELSE [ok |-> FALSE, f |-> 0]
      [] OTHER -> [ok |-> FALSE, f |-> 0]

\* int(x): [ok, n]; ok is FALSE where int() raises.
PyInt(x) ==
    CASE x.t = "int"  -> [ok |-> TRUE, n |-> x.v]
      [] x.t = "bool" -> [ok |-> TRUE, n |-> IF x.v THEN 1 ELSE 0]
      [] x.t = "str"  ->
            IF IntOfStr(x.v) # {}
            THEN [ok |-> TRUE, n |-> CHOOSE n \in IntOfStr(x.v) : TRUE]
            ELSE [ok |-> FALSE, n |-> 0]
      [] OTHER -> [ok |-> FALSE, n |-> 0]

\* The proper, non-empty substrings among the strings of the model: <<a, b>>
\* when a occurs inside b.
ProperSubstrings == {<<"HQ", "HQ-East">>, <<"None", "None of them">>, <<"7", "7.0">>}

\* a in b, b a string
Substring(a, b) == a = b \/ a = "" \/ <<a, b>> \in ProperSubstrings

\* s in x: [ok, b]; ok is FALSE where "in" raises TypeError.
Contains(s, x) ==
    CASE x.t = "str"  -> [ok |-> TRUE, b |-> Substring(s, x.v)]
      [] x.t = "list" -> [ok |-> TRUE, b |-> \E i \in 1..Len(x.v) : x.v[i] = S(s)]
      [] OTHER -> [ok |-> FALSE, b |-> FALSE]

\* d.get(k) of a dict d, a function from its keys
Get(d, k) == IF k \in DOMAIN d THEN d[k] ELSE None

EmptyDict == [k \in {} |-> None]

----------------------------------------------------------------------------
(* ABAC: app/services/abac_service.py *)

\* The rows of table users (app/models/user.py, class User).
Users == {
    [id |-> 1, username |-> "alice", department |-> S("Engineering"), level |-> I(7),
     location |-> S("HQ"), is_superuser |-> B(FALSE)],
    [id |-> 2, username |-> "root", department |-> None, level |-> I(0),
     location |-> None, is_superuser |-> B(TRUE)],
    [id |-> 3, username |-> "bob", department |-> S("Sales"), level |-> I(6),
     location |-> S(""), is_superuser |-> B(FALSE)],
    [id |-> 4, username |-> "admin", department |-> S("IT"), level |-> I(10),
     location |-> S("HQ"), is_superuser |-> B(TRUE)] }

UserNamed(username) == CHOOSE u \in Users : u.username = username

UserIds == {u.id : u \in Users}

\* user_repo.get(id): the columns of the row of that id.
UserOfId(id) == CHOOSE u \in Users : u.id = id

\* {attr.attribute_key: attr.attribute_value for attr in attributes}: a later
\* row of the same key replaces an earlier one.
RECURSIVE DictOfRows(_)
DictOfRows(rows) ==
    IF rows = <<>> THEN EmptyDict
    ELSE LET r == rows[Len(rows)]
         IN (r.attribute_key :> S(r.attribute_value)) @@ DictOfRows(SubSeq(rows, 1, Len(rows) - 1))

get_user_attributes_dict(user_id) ==
    DictOfRows(SelectSeq(userAttrs, LAMBDA r : r.user_id = user_id))

get_resource_attributes_dict(resource_type, resource_id) ==
    DictOfRows(SelectSeq(resAttrs,
        LAMBDA r : r.resource_type = resource_type /\ r.resource_id = resource_id))

\* get_policies(active_only)
get_policies(active_only) ==
    IF active_only THEN SelectSeq(policies, LAMBDA p : p.is_active) ELSE policies

\* A _compare_values whose ">=" leaves out equality.
_compare_values_strict(actual, operator, expected) ==
    CASE operator \in {"equals", "=="} -> PyStr(actual) = PyStr(expected)
      [] operator = "!=" -> PyStr(actual) # PyStr(expected)
      [] operator \in {">", ">="} -> PyFloat(actual).ok /\ PyFloat(expected).ok
                              /\ PyFloat(actual).f > PyFloat(expected).f
      [] operator = "<"  -> PyFloat(actual).ok /\ PyFloat(expected).ok
                              /\ PyFloat(actual).f < PyFloat(expected).f
      [] operator = "<=" -> PyFloat(actual).ok /\ PyFloat(expected).ok
                              /\ PyFloat(actual).f <= PyFloat(expected).f
      [] operator = "in" -> Contains(PyStr(actual), expected).ok
                              /\ Contains(PyStr(actual), expected).b
      [] OTHER -> FALSE

_compare_values(actual, operator, expected) ==
    CASE operator \in {"equals", "=="} -> PyStr(actual) = PyStr(expected)
      [] operator = "!=" -> PyStr(actual) # PyStr(expected)
      [] operator = ">"  -> PyFloat(actual).ok /\ PyFloat(expected).ok
                              /\ PyFloat(actual).f > PyFloat(expected).f
      [] operator = ">=" -> PyFloat(actual).ok /\ PyFloat(expected).ok
                              /\ PyFloat(actual).f >= PyFloat(expected).f
      [] operator = "<"  -> PyFloat(actual).ok /\ PyFloat(expected).ok
                              /\ PyFloat(actual).f < PyFloat(expected).f
      [] operator = "<=" -> PyFloat(actual).ok /\ PyFloat(expected).ok
                              /\ PyFloat(actual).f <= PyFloat(expected).f
      [] operator = "in" -> Contains(PyStr(actual), expected).ok
                              /\ Contains(PyStr(actual), expected).b
      [] OTHER -> FALSE

\* actual_value = user_attrs.get(attr_name) or resource_attrs.get(attr_name)
ActualValue(user_attrs, resource_attrs, attr_name) ==
    PyOr(Get(user_attrs, attr_name), Get(resource_attrs, attr_name))

\* An _evaluate_policy_rules in which a declared "*" stands for any resource.
_evaluate_policy_rules_wildcard(rules, user_attrs, resource_attrs, resource, action) ==
    IF \/ (rules.permissions.resource # resource /\ rules.permissions.resource # "*")
       \/ rules.permissions.action # action
    THEN FALSE
    ELSE \A i \in 1..Len(rules.conditions) :
            LET condition == rules.conditions[i]
            IN _compare_values(
                   ActualValue(user_attrs, resource_attrs, condition.attribute),
                   condition.operator, condition.value)

_evaluate_policy_rules(rules, user_attrs, resource_attrs, resource, action) ==
    IF rules.permissions.resource # resource \/ rules.permissions.action # action
    THEN FALSE
    ELSE \A i \in 1..Len(rules.conditions) :
            LET condition == rules.conditions[i]
            IN _compare_values(
                   ActualValue(user_attrs, resource_attrs, condition.attribute),
                   condition.operator, condition.value)

\* user_attrs of evaluate_policy: the built-in fields, then the custom rows.
UserAttrsOf(user) ==
    get_user_attributes_dict(user.id) @@
    [department |-> PyOr(user.department, S("")),
     level |-> PyOr(user.level, I(1)),
     location |-> PyOr(user.location, S("")),
     is_superuser |-> user.is_superuser]

ResourceAttrsOf(resource_type, resource_id) ==
    IF Truthy(resource_type) /\ Truthy(resource_id)
    THEN get_resource_attributes_dict(resource_type.v, resource_id.v)
    ELSE EmptyDict

\* matched_policies: the names of the active policies whose rules hold, in
\* the order of the rows.
RECURSIVE MatchedNames(_, _, _, _, _)
MatchedNames(rows, user_attrs, resource_attrs, resource, action) ==
    IF rows = <<>> THEN <<>>
    ELSE LET p == Head(rows)
             rest == MatchedNames(Tail(rows), user_attrs, resource_attrs, resource, action)
         IN IF _evaluate_policy_rules(p.rules, user_attrs, resource_attrs, resource, action)
            THEN <<p.name>> \o rest
            ELSE rest

\* What abac_enforcer.enforce(subject, resource, action) can do.  Its matcher
\* is a model file of the enforcer, not of this service: it sees the subject,
\* the resource, the action and the enforcer's own rules, never the rows of
\* abac_policies (sync_policy_to_casbin does nothing).
EnforceOutcomes == {"allow", "deny", "error"}

\* check_abac_permission(attributes, resource, action), the enforcer ending
\* in enforced: building the Subject raises when level is not an integer
\* spelling; every exception ends in the superuser fallback.
check_abac_permission(attributes, enforced) ==
    LET level == Get(attributes, "level")
        subjectBuilt == ~Truthy(level) \/ PyInt(level).ok
    IN IF subjectBuilt /\ enforced = "allow" THEN TRUE
       ELSE IF subjectBuilt /\ enforced = "deny" THEN FALSE
       ELSE Truthy(Get(attributes, "is_superuser"))

\* evaluate_policy: (has_permission, matched_policy_names)
evaluate_policy(user, resource, action, resource_type, resource_id, enforced) ==
    LET user_attrs == UserAttrsOf(user)
        resource_attrs == ResourceAttrsOf(resource_type, resource_id)
        matched_policies == MatchedNames(get_policies(TRUE), user_attrs, resource_attrs,
                                         resource, action)
    IN <<check_abac_permission(user_attrs, enforced), matched_policies>>

\* The enforcer outcomes a call may meet.  favourable: the enforcer is taken
\* to answer as the matched list does, whatever its matcher is.
OutcomesFor(user, resource, action, resource_type, resource_id, favourable) ==
    IF favourable
    THEN {IF evaluate_policy(user, resource, action, resource_type, resource_id, "deny")[2] # <<>>
          THEN "allow" ELSE "deny"}
    ELSE EnforceOutcomes

\* POST /abac/check
abac_check(username, resource, action, resource_type, resource_id, favourable) ==
    \E enforced \in OutcomesFor(UserNamed(username), resource, action,
                                resource_type, resource_id, favourable) :
        /\ last' = [op |-> "evaluate_policy",
                    args |-> <<username, resource, action, resource_type, resource_id>>]
                   @@ Returned(evaluate_policy(UserNamed(username), resource, action,
                                               resource_type, resource_id, enforced))
        /\ UNCHANGED <<rbacVars, abacVars, rebacVars, call, storeVars, userRows>>

create_policy(name, rules, is_active) ==
    IF \E i \in 1..Len(policies) : policies[i].name = name
    THEN /\ last' = [op |-> "create_policy", args |-> <<name>>] @@ Raised("IntegrityError")
         /\ UNCHANGED <<rbacVars, abacVars, rebacVars, call, storeVars, userRows>>
    ELSE /\ policySeq < MaxPolicies
         /\ policySeq' = policySeq + 1
         /\ policies' = Append(policies, [id |-> policySeq + 1, name |-> name,
                                          rules |-> rules, is_active |-> is_active])
         /\ last' = [op |-> "create_policy", args |-> <<name>>] @@ Returned(policySeq + 1)
         /\ UNCHANGED <<rbacVars, userAttrs, resAttrs, pending, rebacVars, call, storeVars, userRows>>

delete_policy(policy_id) ==
    LET found == \E i \in 1..Len(policies) : policies[i].id = policy_id
    IN /\ policies' = SelectSeq(policies, LAMBDA p : p.id # policy_id)
       /\ last' = [op |-> "delete_policy", args |-> <<policy_id>>] @@ Returned(found)
       /\ UNCHANGED <<rbacVars, policySeq, userAttrs, resAttrs, pending, rebacVars, call, storeVars, userRows>>

\* The rows of a table with one changed to hold a new attribute_value.
SetValue(rows, i, value) == [rows EXCEPT ![i].attribute_value = value]

set_user_attribute(user_id, attribute_key, attribute_value) ==
    LET hits == {i \in 1..Len(userAttrs) :
                    userAttrs[i].user_id = user_id /\ userAttrs[i].attribute_key = attribute_key}
    IN /\ Cardinality(hits) <= 1
       /\ hits = {} => Len(userAttrs) < MaxAttrRows
       /\ userAttrs' =
            IF hits # {}
            THEN SetValue(userAttrs, CHOOSE i \in hits : TRUE, attribute_value)
            ELSE Append(userAttrs, [user_id |-> user_id, attribute_key |-> attribute_key,
                                    attribute_value |-> attribute_value])
       /\ last' = [op |-> "set_user_attribute", args |-> <<user_id, attribute_key>>]
                  @@ Returned(attribute_value)
       /\ UNCHANGED <<rbacVars, policies, policySeq, resAttrs, pending, rebacVars, call, storeVars, userRows>>

set_resource_attribute(resource_type, resource_id, attribute_key, attribute_value) ==
    LET hits == {i \in 1..Len(resAttrs) :
                    /\ resAttrs[i].resource_type = resource_type
                    /\ resAttrs[i].resource_id = resource_id
                    /\ resAttrs[i].attribute_key = attribute_key}
    IN /\ Cardinality(hits) <= 1
       /\ hits = {} => Len(resAttrs) < MaxAttrRows
       /\ resAttrs' =
            IF hits # {}
            THEN SetValue(resAttrs, CHOOSE i \in hits : TRUE, attribute_value)
            ELSE Append(resAttrs, [resource_type |-> resource_type, resource_id |-> resource_id,
                                   attribute_key |-> attribute_key,
                                   attribute_value |-> attribute_value])
       /\ last' = [op |-> "set_resource_attribute",
                   args |-> <<resource_type, resource_id, attribute_key>>]
                  @@ Returned(attribute_value)
       /\ UNCHANGED <<rbacVars, policies, policySeq, userAttrs, pending, rebacVars, call, storeVars, userRows>>

\* The database sessions of concurrent requests (get_db gives each request
\* its own), and a session with no upsert in flight.
Sessions == {1, 2}
NoUpsert == [table |-> "none", key |-> <<>>, value |-> "", existing |-> 0]

\* set_user_attribute up to its SELECT: existing is the row found (its
\* position), 0 for none; scalar_one_or_none raises on more than one row.
select_user_attribute(session, user_id, attribute_key, attribute_value) ==
    LET hits == {i \in 1..Len(userAttrs) :
                    userAttrs[i].user_id = user_id /\ userAttrs[i].attribute_key = attribute_key}
    IN /\ pending[session] = NoUpsert
       /\ IF Cardinality(hits) > 1
          THEN /\ last' = [op |-> "set_user_attribute", args |-> <<user_id, attribute_key>>]
                          @@ Raised("MultipleResultsFound")
               /\ UNCHANGED pending
          ELSE /\ pending' = [pending EXCEPT ![session] =
                                 [table |-> "user_attributes", key |-> <<user_id, attribute_key>>,
                                  value |-> attribute_value,
                                  existing |-> IF hits = {} THEN 0 ELSE CHOOSE i \in hits : TRUE]]
               /\ UNCHANGED last
       /\ UNCHANGED <<rbacVars, policies, policySeq, userAttrs, resAttrs, rebacVars, call, storeVars, userRows>>

\* set_user_attribute from its SELECT on: the UPDATE of the row found, or the
\* INSERT of a new row, and the COMMIT.
commit_user_attribute(session) ==
    LET p == pending[session]
    IN /\ p.table = "user_attributes"
       /\ p.existing = 0 => Len(userAttrs) < MaxAttrRows
       /\ userAttrs' =
            IF p.existing # 0
            THEN SetValue(userAttrs, p.existing, p.value)
            ELSE Append(userAttrs, [user_id |-> p.key[1], attribute_key |-> p.key[2],
                                    attribute_value |-> p.value])
       /\ pending' = [pending EXCEPT ![session] = NoUpsert]
       /\ last' = [op |-> "set_user_attribute", args |-> p.key] @@ Returned(p.value)
       /\ UNCHANGED <<rbacVars, policies, policySeq, resAttrs, rebacVars, call, storeVars, userRows>>

\* set_resource_attribute up to its SELECT.
select_resource_attribute(session, resource_type, resource_id, attribute_key, attribute_value) ==
    LET hits == {i \in 1..Len(resAttrs) :
                    /\ resAttrs[i].resource_type = resource_type
                    /\ resAttrs[i].resource_id = resource_id
                    /\ resAttrs[i].attribute_key = attribute_key}
    IN /\ pending[session] = NoUpsert
       /\ IF Cardinality(hits) > 1
          THEN /\ last' = [op |-> "set_resource_attribute",
                           args |-> <<resource_type, resource_id, attribute_key>>]
                          @@ Raised("MultipleResultsFound")
               /\ UNCHANGED pending
          ELSE /\ pending' = [pending EXCEPT ![session] =
                                 [table |-> "resource_attributes",
                                  key |-> <<resource_type, resource_id, attribute_key>>,
                                  value |-> attribute_value,
                                  existing |-> IF hits = {} THEN 0 ELSE CHOOSE i \in hits : TRUE]]
               /\ UNCHANGED last
       /\ UNCHANGED <<rbacVars, policies, policySeq, userAttrs, resAttrs, rebacVars, call, storeVars, userRows>>

\* set_resource_attribute from its SELECT on.
commit_resource_attribute(session) ==
    LET p == pending[session]
    IN /\ p.table = "resource_attributes"
       /\ p.existing = 0 => Len(resAttrs) < MaxAttrRows
       /\ resAttrs' =
            IF p.existing # 0
            THEN SetValue(resAttrs, p.existing, p.value)
            ELSE Append(resAttrs, [resource_type |-> p.key[1], resource_id |-> p.key[2],
                                   attribute_key |-> p.key[3], attribute_value |-> p.value])
       /\ pending' = [pending EXCEPT ![session] = NoUpsert]
       /\ last' = [op |-> "set_resource_attribute", args |-> p.key] @@ Returned(p.value)
       /\ UNCHANGED <<rbacVars, policies, policySeq, userAttrs, rebacVars, call, storeVars, userRows>>

----------------------------------------------------------------------------
(* ReBAC: app/services/rebac_service.py *)

\* The mapped columns of class ResourceRelationship (app/models/user.py):
\* the class has no subject_type and no subject_id.
ResourceRelationshipColumns ==
    {"id", "resource_type", "resource_id", "parent_resource_type", "parent_resource_id",
     "relationship_type", "created_at"}

\* The keyword arguments create_relationship hands to ResourceRelationship(...).
RelationshipFields ==
    {"subject_type", "subject_id", "resource_type", "resource_id", "parent_resource_type",
     "parent_resource_id", "relationship_type"}

\* resource.split(":", 1) over the resource tokens of the model: <<type, id>>,
\* or <<"resource", resource>> for a token with no colon.
ResourceParts(resource) ==
    CASE resource = "document:doc_001"     -> <<"document", "doc_001">>
      [] resource = "project:proj_001"     -> <<"project", "proj_001">>
      [] resource = "organization:org_001" -> <<"organization", "org_001">>
      [] OTHER -> <<"resource", resource>>

\* f"{type}:{id}"
ResourceKey(type, id) == type \o ":" \o id

\* rebac_enforcer.enforce(user, resource, action): the flat check, the
\* relationship facts taken as grouping rules (the closure of RBAC, over
\* resource nodes).
rebac_enforce(G, P, user, resource, action) ==
    \E g \in GroupClosure(G, {user}, {}) : <<g, resource, action>> \in P

\* check_rebac_permission: the fallback of check_access_path.
check_rebac_permission(user, resource, action) ==
    rebac_enforce(rebacG, rebacP, user, resource, action)

\* add_resource_relationship: the grouping rule is added to the ReBAC
\* enforcer, and a rule that was added makes the enforcer save.
add_resource_relationship(resource, parent_resource) ==
    LET result == <<resource, parent_resource>> \notin rebacG
    IN /\ result => Cardinality(rebacG) < MaxEdges
       /\ rebacG' = IF result THEN rebacG \cup {<<resource, parent_resource>>} ELSE rebacG
       /\ casbin_rule' = IF result
                          THEN save_policy(rebacG \cup {<<resource, parent_resource>>}, rebacP)
                          ELSE casbin_rule
       /\ last' = [op |-> "add_resource_relationship", args |-> <<resource, parent_resource>>]
                    @@ Returned(result)
       /\ UNCHANGED <<rbacVars, abacVars, relationships, relSeq, rebacP, call, abacP, userRows>>

delete_resource_relationship(resource, parent_resource) ==
    LET result == <<resource, parent_resource>> \in rebacG
    IN /\ rebacG' = rebacG \ {<<resource, parent_resource>>}
       /\ casbin_rule' = IF result
                          THEN save_policy(rebacG \ {<<resource, parent_resource>>}, rebacP)
                          ELSE casbin_rule
       /\ last' = [op |-> "delete_resource_relationship",
                    args |-> <<resource, parent_resource>>] @@ Returned(result)
       /\ UNCHANGED <<rbacVars, abacVars, relationships, relSeq, rebacP, call, abacP, userRows>>

\* initialize, at the start of the application: each of the three enforcers
\* gets an Adapter on the default table casbin_rule and loads its policy, the
\* rows of its model's policy types ("p" and "g"; "p" for the ABAC model).
\* No request is in flight when the application starts.
initialize ==
    /\ call.pc \in {"idle", "done"}
    /\ rbacG' = RulesOf("g", casbin_rule)
    /\ rbacP' = RulesOf("p", casbin_rule)
    /\ abacP' = RulesOf("p", casbin_rule)
    /\ rebacG' = RulesOf("g", casbin_rule)
    /\ rebacP' = RulesOf("p", casbin_rule)
    /\ last' = [op |-> "initialize", args |-> <<>>] @@ Returned(TRUE)
    /\ UNCHANGED <<abacVars, relationships, relSeq, casbin_rule, call, userRows>>

\* get_relationships(**filters): filters is a function from the names of the
\* filters given (and truthy) to their values.  Each filter reads the class
\* attribute of its name, which raises AttributeError when the class has none.
get_relationships(filters) ==
    IF ~(DOMAIN filters \subseteq ResourceRelationshipColumns)
    THEN Raised("AttributeError")
    ELSE Returned(SelectSeq(relationships,
                            LAMBDA r : \A k \in DOMAIN filters : r[k] = filters[k]))

\* _find_permission_path: [raised, path, visited]; path is <<>> for None.
\* The loop over relationships[i..] of the node resource_type:resource_id,
\* the visited set shared by the whole search.
RECURSIVE _find_permission_path(_, _, _, _)
RECURSIVE ScanRelationships(_, _, _, _, _)
ScanRelationships(username, resource_key, rels, i, visited) ==
    IF i > Len(rels) THEN [raised |-> FALSE, path |-> <<>>, visited |-> visited]
    ELSE LET rel == rels[i]
             parent_key == ResourceKey(rel.parent_resource_type, rel.parent_resource_id)
             parent_rels == get_relationships(
                 [subject_type |-> "user", subject_id |-> username,
                  resource_type |-> rel.parent_resource_type,
                  resource_id |-> rel.parent_resource_id])
         IN IF parent_rels.outcome = "raised"
            THEN [raised |-> TRUE, path |-> <<>>, visited |-> visited]
            ELSE IF parent_rels.result # <<>>
            THEN [raised |-> FALSE,
                  path |-> << <<username, "owns", parent_key>>,
                              <<parent_key, rel.relationship_type, resource_key>> >>,
                  visited |-> visited]
            ELSE LET parent == _find_permission_path(username, rel.parent_resource_type,
                                                     rel.parent_resource_id, visited)
                 IN IF parent.raised THEN parent
                    ELSE IF parent.path # <<>>
                    THEN [raised |-> FALSE,
                          path |-> Append(parent.path,
                                          <<parent_key, rel.relationship_type, resource_key>>),
                          visited |-> parent.visited]
                    ELSE ScanRelationships(username, resource_key, rels, i + 1,
                                           parent.visited)

_find_permission_path(username, resource_type, resource_id, visited) ==
    LET resource_key == ResourceKey(resource_type, resource_id)
    IN IF resource_key \in visited
       THEN [raised |-> FALSE, path |-> <<>>, visited |-> visited]
       ELSE LET relationships_ == get_relationships(
                    [resource_type |-> resource_type, resource_id |-> resource_id])
            IN IF relationships_.outcome = "raised"
               THEN [raised |-> TRUE, path |-> <<>>, visited |-> visited]
               ELSE ScanRelationships(username, resource_key, relationships_.result, 1,
                                      visited \cup {resource_key})

\* check_access_path: Returned(<<has_permission, path>>) (path <<>> for None),
\* or the exception it lets through.
check_access_path(username, resource, action) ==
    LET resource_type == ResourceParts(resource)[1]
        resource_id == ResourceParts(resource)[2]
        direct_relationships ==
            get_relationships([subject_type |-> "user", subject_id |-> username])
    IN IF direct_relationships.outcome = "raised" THEN direct_relationships
       ELSE LET rels == direct_relationships.result
                hits == {i \in 1..Len(rels) :
                            /\ rels[i].resource_type = resource_type
                            /\ rels[i].resource_id = resource_id
                            /\ rels[i].relationship_type \in {"owner_of", "member_of"}}
            IN IF hits # {}
               THEN LET i == CHOOSE j \in hits : \A k \in hits : j <= k
                    IN Returned(<<TRUE, << <<username, rels[i].relationship_type, resource>> >> >>)
               ELSE LET found == _find_permission_path(username, resource_type, resource_id, {})
                    IN IF found.raised THEN Raised("AttributeError")
                       ELSE IF found.path # <<>> THEN Returned(<<TRUE, found.path>>)
                       ELSE Returned(<<check_rebac_permission(username, resource, action), <<>> >>)

\* POST /rebac/check
rebac_check(username, resource, action) ==
    /\ last' = [op |-> "check_access_path", args |-> <<username, resource, action>>]
               @@ check_access_path(username, resource, action)
    /\ UNCHANGED <<rbacVars, abacVars, rebacVars, call, storeVars, userRows>>

\* create_relationship: ResourceRelationship(**fields) raises TypeError for a
\* keyword that is no attribute of the class; otherwise the row is added and
\* the edge is given to the ReBAC enforcer (sync_relationship_to_casbin).
create_relationship(fields) ==
    IF ~(DOMAIN fields \subseteq ResourceRelationshipColumns)
    THEN /\ last' = [op |-> "create_relationship", args |-> <<fields>>] @@ Raised("TypeError")
         /\ UNCHANGED <<rbacVars, abacVars, rebacVars, call, storeVars, userRows>>
    ELSE /\ relSeq' = relSeq + 1
         /\ relationships' = Append(relationships, fields @@ [id |-> relSeq + 1])
         /\ LET edge == <<ResourceKey(fields.subject_type, fields.subject_id),
                           ResourceKey(fields.resource_type, fields.resource_id)>>
            IN /\ rebacG' = rebacG \cup {edge}
               /\ casbin_rule' = IF edge \notin rebacG
                                  THEN save_policy(rebacG \cup {edge}, rebacP)
                                  ELSE casbin_rule
         /\ last' = [op |-> "create_relationship", args |-> <<fields>>]
                    @@ Returned(relSeq + 1)
         /\ UNCHANGED <<rbacVars, abacVars, rebacP, call, abacP, userRows>>

\* delete_relationship(relationship_id): the row of that id, when there is one.
delete_relationship(relationship_id) ==
    LET found == \E i \in 1..Len(relationships) : relationships[i].id = relationship_id
    IN /\ relationships' = SelectSeq(relationships, LAMBDA r : r.id # relationship_id)
       /\ last' = [op |-> "delete_relationship", args |-> <<relationship_id>>] @@ Returned(found)
       /\ UNCHANGED <<rbacVars, abacVars, relSeq, rebacG, rebacP, call, storeVars, userRows>>

----------------------------------------------------------------------------
(* The aggregator: app/services/authorization_service.py *)

\* AuthorizationResult(model, has_permission, reason)
AuthorizationResult(model, has_permission, reason) ==
    [model |-> model, has_permission |-> has_permission, reason |-> reason]

\* check_permission up to its first await's return: the RBAC verdict.
check_permission_rbac(username, resource, action, resource_type, resource_id) ==
    LET rbac_permission == check_rbac_permission(username, resource, action)
    IN /\ call.pc \in {"idle", "done"}
       /\ call' = [pc |-> "rbac_done",
                   req |-> <<username, resource, action, resource_type, resource_id>>,
                   results |-> <<AuthorizationResult("rbac", rbac_permission,
                                     <<"Role-based access control check">>)>>,
                   granted_by |-> IF rbac_permission THEN <<"rbac">> ELSE <<>>,
                   outcome |-> "none", has_permission |-> FALSE]
       /\ UNCHANGED <<rbacVars, abacVars, rebacVars, last, storeVars, userRows>>

\* "Matched policies: ..." or "No policies matched"
AbacReason(matched_policies) ==
    IF matched_policies # <<>> THEN <<"Matched policies">> \o matched_policies
    ELSE <<"No policies matched">>

\* check_permission, its second evaluation: ABAC.
check_permission_abac(favourable) ==
    /\ call.pc = "rbac_done"
    /\ \E enforced \in OutcomesFor(UserNamed(call.req[1]), call.req[2], call.req[3],
                                   call.req[4], call.req[5], favourable) :
         LET abac == evaluate_policy(UserNamed(call.req[1]), call.req[2], call.req[3],
                                     call.req[4], call.req[5], enforced)
         IN call' = [call EXCEPT
                !.pc = "abac_done",
                !.results = Append(@, AuthorizationResult("abac", abac[1], AbacReason(abac[2]))),
                !.granted_by = IF abac[1] THEN Append(@, "abac") ELSE @]
    /\ UNCHANGED <<rbacVars, abacVars, rebacVars, last, storeVars, userRows>>

\* " -> ".join(relationship_path) or "No relationship path found"
RebacReason(relationship_path) ==
    IF relationship_path # <<>> THEN relationship_path ELSE <<"No relationship path found">>

\* check_permission, its third evaluation (ReBAC) and its return.
check_permission_rebac ==
    /\ call.pc = "abac_done"
    /\ LET rebac == check_access_path(call.req[1], call.req[2], call.req[3])
       IN IF rebac.outcome = "raised"
          THEN /\ call' = [call EXCEPT !.pc = "done", !.outcome = rebac.result]
               /\ last' = [op |-> "check_permission", args |-> call.req] @@ rebac
          ELSE LET results == Append(call.results,
                                  AuthorizationResult("rebac", rebac.result[1],
                                                      RebacReason(rebac.result[2])))
                   granted_by == IF rebac.result[1] THEN Append(call.granted_by, "rebac")
                                 ELSE call.granted_by
               IN /\ call' = [call EXCEPT !.pc = "done", !.outcome = "returned",
                                          !.results = results, !.granted_by = granted_by,
                                          !.has_permission = Len(granted_by) > 0]
                  /\ last' = [op |-> "check_permission", args |-> call.req]
                             @@ Returned(<<Len(granted_by) > 0, granted_by, results>>)
    /\ UNCHANGED <<rbacVars, abacVars, rebacVars, storeVars, userRows>>

----------------------------------------------------------------------------
(* Accounts: app/services/user_service.py, app/api/v1/endpoints/users.py *)

\* The methods of class CasbinEnforcer.
CasbinEnforcerMethods ==
    {"initialize", "check_rbac_permission", "check_rbac_permission_async",
     "check_abac_permission", "check_abac_permission_async", "check_rebac_permission",
     "check_rebac_permission_async", "add_role_for_user", "delete_role_for_user",
     "get_roles_for_user", "get_users_for_role", "add_permission_for_role",
     "delete_permission_for_role", "get_permissions_for_role", "add_resource_relationship",
     "delete_resource_relationship", "save_policy"}

\* The grouping rules left when every direct role of the user is removed,
\* one delete_role_for_user for each role get_roles_for_user gives.
WithoutRolesOf(username) == {e \in rbacG : e[1] # username}

\* deactivate_user(user_id): is_active becomes False, the user's direct roles
\* are removed from the RBAC enforcer (each removal saves), and the row is
\* committed.  The result is the user, or None for an id of no row.
deactivate_user(user_id) ==
    IF ~userRows[user_id].present
    THEN /\ last' = [op |-> "deactivate_user", args |-> <<user_id>>] @@ Returned(None)
         /\ UNCHANGED <<rbacVars, abacVars, rebacVars, call, storeVars, userRows>>
    ELSE LET username == UserOfId(user_id).username
             roles == get_roles_for_user(username)
         IN /\ userRows' = [userRows EXCEPT ![user_id].is_active = FALSE]
            /\ rbacG' = WithoutRolesOf(username)
            /\ casbin_rule' = IF roles # {} THEN save_policy(WithoutRolesOf(username), rbacP)
                               ELSE casbin_rule
            /\ last' = [op |-> "deactivate_user", args |-> <<user_id>>] @@ Returned(S(username))
            /\ UNCHANGED <<rbacP, abacVars, rebacVars, call, abacP>>

\* delete(user_id), the hard delete: the role "user" is removed from the
\* user, and the row is deleted.
delete(user_id) ==
    IF ~userRows[user_id].present
    THEN /\ last' = [op |-> "delete", args |-> <<user_id>>] @@ Returned(None)
         /\ UNCHANGED <<rbacVars, abacVars, rebacVars, call, storeVars, userRows>>
    ELSE LET username == UserOfId(user_id).username
         IN /\ userRows' = [userRows EXCEPT ![user_id].present = FALSE]
            /\ rbacG' = rbacG \ {<<username, "user">>}
            /\ casbin_rule' = IF <<username, "user">> \in rbacG
                               THEN save_policy(rbacG \ {<<username, "user">>}, rbacP)
                               ELSE casbin_rule
            /\ last' = [op |-> "delete", args |-> <<user_id>>] @@ Returned(S(username))
            /\ UNCHANGED <<rbacP, abacVars, rebacVars, call, abacP>>

\* get_current_active_user: the status that ends the request, 0 when the
\* caller's row is there and active (401 from get_current_user, 400 for an
\* inactive user).
get_current_active_user(caller) ==
    IF ~userRows[caller].present THEN 401
    ELSE IF ~userRows[caller].is_active THEN 400
    ELSE 0

\* DELETE /users/{id} by an authenticated caller.  After the dependencies
\* and the look-up of the target the handler calls
\* casbin_enforcer.enforce_unified, which class CasbinEnforcer does not have:
\* AttributeError, and the request ends there.
delete_user(caller, id, soft_delete) ==
    LET request == [op |-> "delete_user", args |-> <<caller, id, soft_delete>>]
    IN IF get_current_active_user(caller) # 0
       THEN /\ last' = request @@ Http(get_current_active_user(caller))
            /\ UNCHANGED <<rbacVars, abacVars, rebacVars, call, storeVars, userRows>>
       ELSE IF ~userRows[id].present
       THEN /\ last' = request @@ Http(404)
            /\ UNCHANGED <<rbacVars, abacVars, rebacVars, call, storeVars, userRows>>
       ELSE IF "enforce_unified" \notin CasbinEnforcerMethods
       THEN /\ last' = request @@ Raised("AttributeError")
            /\ UNCHANGED <<rbacVars, abacVars, rebacVars, call, storeVars, userRows>>
       ELSE IF soft_delete THEN deactivate_user(id) ELSE delete(id)

----------------------------------------------------------------------------
(* The state after start-up: empty tables, enforcers loaded from them *)

Init ==
    /\ rbacG = {}
    /\ rbacP = {}
    /\ policies = <<>>
    /\ policySeq = 0
    /\ userAttrs = <<>>
    /\ resAttrs = <<>>
    /\ pending = [session \in Sessions |-> NoUpsert]
    /\ relationships = <<>>
    /\ relSeq = 0
    /\ rebacG = {}
    /\ rebacP = {}
    /\ abacP = {}
    /\ casbin_rule = {}
    /\ userRows = [id \in UserIds |-> [present |-> TRUE, is_active |-> TRUE]]
    /\ call = Idle
    /\ last = [op |-> "startup", args |-> <<>>] @@ Returned(TRUE)

----------------------------------------------------------------------------
(* RBAC administration and enforcement: a chain s -> g1 -> g2 -> g3, a short *)
(* cut, back edges that close cycles, and a self-loop                        *)

RbacNames == {"s", "g1", "g2", "g3"}
RbacEdges == {<<"s", "g1">>, <<"g1", "g2">>, <<"g2", "g3">>, <<"s", "g3">>,
              <<"g2", "g1">>, <<"g3", "s">>, <<"g1", "g1">>}
RbacResources == {"documents"}
RbacActions == {"read"}

NextRBAC ==
    \/ \E e \in RbacEdges : add_role_for_user(e[1], e[2])
    \/ \E e \in RbacEdges : delete_role_for_user(e[1], e[2])
    \/ \E r \in RbacNames, o \in RbacResources, a \in RbacActions :
          add_permission_for_role(r, o, a)
    \/ \E r \in RbacNames, o \in RbacResources, a \in RbacActions :
          delete_permission_for_role(r, o, a)
    \/ \E u \in RbacNames, o \in RbacResources, a \in RbacActions :
          rbac_check_permission(u, o, a)
    \/ \E u \in RbacNames : rbac_get_roles_for_user(u)
    \/ \E e \in RbacEdges : assign_role_to_user(e[1], e[2])
    \/ \E e \in RbacEdges : revoke_role_from_user(e[1], e[2])
    \/ \E r \in RbacNames, o \in RbacResources, a \in RbacActions :
          assign_permission_to_role(r, o, a)
    \/ \E r \in RbacNames, o \in RbacResources, a \in RbacActions :
          revoke_permission_from_role(r, o, a)

SpecRBAC == Init /\ [][NextRBAC]_vars

----------------------------------------------------------------------------
(* ABAC administration and evaluation *)

Condition(attribute, operator, value) ==
    [attribute |-> attribute, operator |-> operator, value |-> value]

Policy(name, conditions, resource, action, is_active) ==
    [name |-> name,
     rules |-> [conditions |-> conditions,
                permissions |-> [resource |-> resource, action |-> action]],
     is_active |-> is_active]

\* The three policies of scripts/seed_database.py, and three more.
PolicyDocs == {
    Policy("Engineering Read Access",
           <<Condition("department", "equals", S("Engineering"))>>, "documents", "read", TRUE),
    Policy("High Level Write Access",
           <<Condition("level", ">=", I(7))>>, "documents", "write", TRUE),
    Policy("HQ Delete Access",
           <<Condition("location", "equals", S("HQ"))>>, "*", "delete", TRUE),
    Policy("Not Secret",
           <<Condition("clearance", "!=", S("secret"))>>, "documents", "read", TRUE),
    Policy("Draft", <<>>, "documents", "read", FALSE) }

AbacUsers == {"alice", "root"}
AbacRequests == {<<"documents", "read">>, <<"documents", "write">>,
                 <<"documents", "delete">>, <<"*", "delete">>}
AbacResourceIds == {<<None, None>>, <<S("document"), S("doc_001")>>}
UserAttrInputs == {<<1, "level", "abc">>, <<2, "level", "abc">>, <<1, "level", "10">>}
ResourceAttrInputs == {<<"document", "doc_001", "clearance", "public">>}

AbacAdmin ==
    \/ \E d \in PolicyDocs : create_policy(d.name, d.rules, d.is_active)
    \/ \E id \in 1..MaxPolicies : delete_policy(id)
    \/ \E a \in UserAttrInputs : set_user_attribute(a[1], a[2], a[3])
    \/ \E a \in ResourceAttrInputs : set_resource_attribute(a[1], a[2], a[3], a[4])

NextABAC ==
    \/ AbacAdmin
    \/ \E u \in AbacUsers, q \in AbacRequests, r \in AbacResourceIds :
          abac_check(u, q[1], q[2], r[1], r[2], FALSE)

SpecABAC == Init /\ [][NextABAC]_vars

\* The same, the enforcer answering as the matched list does.
NextABACFavourable ==
    \/ AbacAdmin
    \/ \E u \in AbacUsers, q \in AbacRequests, r \in AbacResourceIds :
          abac_check(u, q[1], q[2], r[1], r[2], TRUE)

SpecABACFavourable == Init /\ [][NextABACFavourable]_vars

----------------------------------------------------------------------------
(* The whole service: administration of the three models, the three checks *)
(* and check_permission                                                    *)

\* The first two relationships of scripts/seed_database.py.
RelationshipInputs == {
    [subject_type |-> "user", subject_id |-> "admin",
     resource_type |-> "project", resource_id |-> "proj_001",
     parent_resource_type |-> "organization", parent_resource_id |-> "org_001",
     relationship_type |-> "owner_of"],
    [subject_type |-> "resource", subject_id |-> "project:proj_001",
     resource_type |-> "document", resource_id |-> "doc_001",
     parent_resource_type |-> "project", parent_resource_id |-> "proj_001",
     relationship_type |-> "parent_of"] }

CheckUsers == {"alice", "root"}
CheckRequests == {<<"documents", "read">>, <<"document:doc_001", "read">>}
CheckPolicyDocs == {d \in PolicyDocs : d.name \in {"Engineering Read Access", "Draft"}}
CheckAttrInputs == {<<1, "level", "abc">>}

Admin ==
    \/ add_role_for_user("alice", "editor")
    \/ delete_role_for_user("alice", "editor")
    \/ add_permission_for_role("editor", "documents", "read")
    \/ delete_permission_for_role("editor", "documents", "read")
    \/ \E d \in CheckPolicyDocs : create_policy(d.name, d.rules, d.is_active)
    \/ \E id \in 1..MaxPolicies : delete_policy(id)
    \/ \E a \in CheckAttrInputs : set_user_attribute(a[1], a[2], a[3])
    \/ \E f \in RelationshipInputs : create_relationship(f)
    \/ delete_relationship(1)

Checks(favourable) ==
    \/ \E u \in CheckUsers, q \in CheckRequests :
          check_permission_rbac(u, q[1], q[2], None, None)
    \/ check_permission_abac(favourable)
    \/ check_permission_rebac
    \/ \E u \in {"admin", "alice"} : rebac_check(u, "document:doc_001", "read")

Next == Admin \/ Checks(FALSE)

Spec == Init /\ [][Next]_vars

\* The same, the ABAC enforcer answering as the matched list does.
NextFavourable == Admin \/ Checks(TRUE)

SpecFavourable == Init /\ [][NextFavourable]_vars

\* The comparator alone, on numbers and on their decimal spellings.
MaxCompared == 10
Numerals == {<<I(n), n>> : n \in (0 - MaxCompared)..MaxCompared}
            \cup {<<S(IntStr(n)), n>> : n \in (0 - MaxCompared)..MaxCompared}
CompareOperators == {">", ">=", "<", "<="}

compare_values(actual, operator, expected) ==
    /\ last' = [op |-> "_compare_values", args |-> <<actual, operator, expected>>]
                @@ Returned(_compare_values(actual, operator, expected))
    /\ UNCHANGED <<rbacVars, abacVars, rebacVars, call, storeVars, userRows>>

\* One comparison from the start, for every pair of inputs.
NextCompare ==
    /\ last.op = "startup"
    /\ \E x \in Numerals, y \in Numerals, operator \in CompareOperators :
           compare_values(x[1], operator, y[1])

SpecCompare == Init /\ [][NextCompare]_vars

\* Attribute resolution: a subject whose department is empty or set, a
\* resource with a department (seed_database.py).
ResolutionPolicyDocs == {d \in PolicyDocs : d.name \in {"Engineering Read Access", "Draft"}}
ResolutionUserAttrInputs == {<<2, "department", "">>, <<2, "department", "Sales">>,
                             <<1, "department", "">>}
ResolutionResourceAttrInputs == {<<"document", "doc_001", "department", "Engineering">>,
                                 <<"document", "doc_001", "department", "Sales">>}

NextResolution ==
    \/ \E d \in ResolutionPolicyDocs : create_policy(d.name, d.rules, d.is_active)
    \/ \E id \in 1..MaxPolicies : delete_policy(id)
    \/ \E a \in ResolutionUserAttrInputs : set_user_attribute(a[1], a[2], a[3])
    \/ \E a \in ResolutionResourceAttrInputs : set_resource_attribute(a[1], a[2], a[3], a[4])
    \/ \E u \in AbacUsers, r \in AbacResourceIds :
          abac_check(u, "documents", "read", r[1], r[2], FALSE)

SpecResolution == Init /\ [][NextResolution]_vars

\* The traversal alone, over tables of parent links that hold cycles.  The
\* rows have the columns of the table, which the service cannot write (its
\* create_relationship raises) and another writer of the database can.
MaxRows == 2
ParentLink(resource_type, resource_id, parent_resource_type, parent_resource_id) ==
    [resource_type |-> resource_type, resource_id |-> resource_id,
     parent_resource_type |-> parent_resource_type,
     parent_resource_id |-> parent_resource_id,
     relationship_type |-> "parent_of"]
ParentLinks == {
    ParentLink("project", "proj_001", "organization", "org_001"),
    ParentLink("organization", "org_001", "project", "proj_001"),
    ParentLink("project", "proj_001", "project", "proj_001"),
    ParentLink("document", "doc_001", "project", "proj_001") }
TraversalNodes == {<<"project", "proj_001">>, <<"organization", "org_001">>,
                   <<"document", "doc_001">>}
TraversalTables ==
    {[i \in DOMAIN q |-> q[i] @@ [id |-> i]] :
        q \in {t \in UNION {[1..n -> ParentLinks] : n \in 0..MaxRows} :
                  \A i, j \in DOMAIN t : i # j => t[i] # t[j]}}

InitTraversal ==
    /\ rbacG = {} /\ rbacP = {}
    /\ policies = <<>> /\ policySeq = 0
    /\ userAttrs = <<>> /\ resAttrs = <<>>
    /\ pending = [session \in Sessions |-> NoUpsert]
    /\ relationships \in TraversalTables
    /\ relSeq = Len(relationships)
    /\ rebacG = {} /\ rebacP = {}
    /\ abacP = {} /\ casbin_rule = {}
    /\ userRows = [id \in UserIds |-> [present |-> TRUE, is_active |-> TRUE]]
    /\ call = Idle
    /\ last = [op |-> "startup", args |-> <<>>] @@ Returned(TRUE)

\* A call of _find_permission_path(username, resource_type, resource_id):
\* the path it returns (<<>> for None), or the exception it lets through.
find_permission_path(username, resource_type, resource_id) ==
    LET found == _find_permission_path(username, resource_type, resource_id, {})
    IN /\ last' = [op |-> "_find_permission_path",
                   args |-> <<username, resource_type, resource_id>>]
                  @@ (IF found.raised THEN Raised("AttributeError")
                      ELSE Returned(found.path))
       /\ UNCHANGED <<rbacVars, abacVars, rebacVars, call, storeVars, userRows>>

NextTraversal ==
    \E u \in {"admin", "alice"}, n \in TraversalNodes : find_permission_path(u, n[1], n[2])

SpecTraversal == InitTraversal /\ [][NextTraversal]_vars

\* The attribute upserts of concurrent requests, each in two steps.
UpsertUserInputs == {<<1, "level", "abc">>, <<1, "level", "10">>, <<2, "level", "abc">>}
UpsertResourceInputs == {<<"document", "doc_001", "clearance", "public">>,
                         <<"document", "doc_001", "clearance", "secret">>}

NextUpsert ==
    \/ \E session \in Sessions, a \in UpsertUserInputs :
          select_user_attribute(session, a[1], a[2], a[3])
    \/ \E session \in Sessions : commit_user_attribute(session)
    \/ \E session \in Sessions, a \in UpsertResourceInputs :
          select_resource_attribute(session, a[1], a[2], a[3], a[4])
    \/ \E session \in Sessions : commit_resource_attribute(session)

SpecUpsert == Init /\ [][NextUpsert]_vars

\* The three enforcement calls when the enforcer's enforce can raise (its
\* store or its matcher fails): each wrapper catches the exception.
check_rbac_permission_call(user, resource, action, fails) ==
    /\ last' = [op |-> "check_rbac_permission", args |-> <<user, resource, action>>,
                enforce_raised |-> fails]
               @@ Returned(IF fails THEN FALSE
                           ELSE check_rbac_permission(user, resource, action))
    /\ UNCHANGED <<rbacVars, abacVars, rebacVars, call, storeVars, userRows>>

check_abac_permission_call(username, resource, action, enforced) ==
    /\ last' = [op |-> "check_abac_permission", args |-> <<username, resource, action>>,
                enforce_raised |-> (enforced = "error")]
               @@ Returned(check_abac_permission(UserAttrsOf(UserNamed(username)), enforced))
    /\ UNCHANGED <<rbacVars, abacVars, rebacVars, call, storeVars, userRows>>

check_rebac_permission_call(user, resource, action, fails) ==
    /\ last' = [op |-> "check_rebac_permission", args |-> <<user, resource, action>>,
                enforce_raised |-> fails]
               @@ Returned(IF fails THEN FALSE
                           ELSE check_rebac_permission(user, resource, action))
    /\ UNCHANGED <<rbacVars, abacVars, rebacVars, call, storeVars, userRows>>

NextFailure ==
    \/ add_role_for_user("alice", "editor")
    \/ delete_role_for_user("alice", "editor")
    \/ add_permission_for_role("editor", "documents", "read")
    \/ delete_permission_for_role("editor", "documents", "read")
    \/ \E a \in CheckAttrInputs : set_user_attribute(a[1], a[2], a[3])
    \/ \E u \in CheckUsers, fails \in BOOLEAN :
          check_rbac_permission_call(u, "documents", "read", fails)
    \/ \E u \in CheckUsers, enforced \in EnforceOutcomes :
          check_abac_permission_call(u, "documents", "read", enforced)
    \/ \E u \in CheckUsers, fails \in BOOLEAN :
          check_rebac_permission_call(u, "document:doc_001", "read", fails)

SpecFailure == Init /\ [][NextFailure]_vars

\* The rule store: the administration of roles, grants and relationship
\* facts through the three enforcers, and restarts of the application.
StoreRoleEdges == {<<"alice", "editor">>, <<"bob", "editor">>}
StoreGrants == {<<"editor", "documents", "read">>, <<"editor", "documents", "write">>}
StoreRelationshipEdges == {<<"user:alice", "document:doc_001">>,
                           <<"document:doc_001", "project:proj_001">>}

NextStore ==
    \/ \E e \in StoreRoleEdges : assign_role_to_user(e[1], e[2])
    \/ \E e \in StoreRoleEdges : revoke_role_from_user(e[1], e[2])
    \/ \E t \in StoreGrants : assign_permission_to_role(t[1], t[2], t[3])
    \/ \E t \in StoreGrants : revoke_permission_from_role(t[1], t[2], t[3])
    \/ \E e \in StoreRelationshipEdges : add_resource_relationship(e[1], e[2])
    \/ \E e \in StoreRelationshipEdges : delete_resource_relationship(e[1], e[2])
    \/ initialize

SpecStore == Init /\ [][NextStore]_vars

\* Accounts: deletions and deactivations among role assignments and grants.
AccountIds == {1, 4}
AccountRoleEdges == {<<"alice", "editor">>, <<"alice", "user">>, <<"admin", "admin">>}
AccountGrants == {<<"editor", "documents", "read">>, <<"admin", "users", "delete">>}

NextAccounts ==
    \/ \E e \in AccountRoleEdges : assign_role_to_user(e[1], e[2])
    \/ \E t \in AccountGrants : add_permission_for_role(t[1], t[2], t[3])
    \/ \E caller \in AccountIds, id \in AccountIds, soft_delete \in BOOLEAN :
          delete_user(caller, id, soft_delete)
    \/ \E id \in AccountIds : deactivate_user(id)
    \/ \E id \in AccountIds : delete(id)
    \/ \E id \in AccountIds, t \in AccountGrants :
          rbac_check_permission(UserOfId(id).username, t[2], t[3])
    \/ \E id \in AccountIds : rbac_get_roles_for_user(UserOfId(id).username)

SpecAccounts == Init /\ [][NextAccounts]_vars

\* The four evaluations among administration of every rule set.
NextEvaluation ==
    \/ add_role_for_user("alice", "editor")
    \/ add_permission_for_role("editor", "documents", "read")
    \/ \E d \in CheckPolicyDocs : create_policy(d.name, d.rules, d.is_active)
    \/ \E a \in CheckAttrInputs : set_user_attribute(a[1], a[2], a[3])
    \/ initialize
    \/ \E u \in CheckUsers : rbac_check_permission(u, "documents", "read")
    \/ \E u \in CheckUsers : abac_check(u, "documents", "read", None, None, FALSE)
    \/ \E u \in CheckUsers : rebac_check(u, "document:doc_001", "read")
    \/ \E u \in CheckUsers, q \in CheckRequests :
          check_permission_rbac(u, q[1], q[2], None, None)
    \/ check_permission_abac(FALSE)
    \/ check_permission_rebac

SpecEvaluation == Init /\ [][NextEvaluation]_vars

----------------------------------------------------------------------------
(* Claims *)

\* The request and the result of the evaluate_policy call in last.
EvUser == UserNamed(last.args[1])
EvUserAttrs == UserAttrsOf(EvUser)
EvResourceAttrs == ResourceAttrsOf(last.args[4], last.args[5])
EvGranted == last.result[1]
EvMatched == last.result[2]
EvaluatePolicyReturned == last.op = "evaluate_policy" /\ last.outcome = "returned"

\* The values of a sequence
Range(q) == {q[i] : i \in 1..Len(q)}

\* C1: every check_permission call returns, and returns has_permission = TRUE
\* exactly when at least one of its three per-model evaluations granted.
C1_GrantedIffSomeModelGranted ==
    call.pc = "done" =>
        /\ call.outcome = "returned"
        /\ Len(call.results) = 3
        /\ call.has_permission = (\E r \in Range(call.results) : r.has_permission)

\* C2: evaluate_policy returns has_permission = TRUE exactly when the list of
\* matched policy names it returns is not empty.
C2_GrantedIffMatched ==
    EvaluatePolicyReturned => (EvGranted <=> EvMatched # <<>>)

\* The membership chains S -> G1 -> G2 -> G3 over distinct names.
Chains == {c \in RbacNames \X RbacNames \X RbacNames \X RbacNames :
              Cardinality({c[1], c[2], c[3], c[4]}) = 4}
ChainEdges(c) == {<<c[1], c[2]>>, <<c[2], c[3]>>, <<c[3], c[4]>>}

\* The last operation removed the membership edge e, or the grant p.
RevokedEdge(e) ==
    last.op = "delete_role_for_user" /\ last.result = TRUE /\ last.args = e
RevokedGrant(p) ==
    last.op = "delete_permission_for_role" /\ last.result = TRUE /\ last.args = p

\* C3: with the chain S -> G1 -> G2 -> G3 and a grant (G3, resource, action),
\* check_rbac_permission(S, resource, action) is true; once one edge of the
\* chain, or the grant, has been removed from exactly that state, it is false.
C3_ChainGrantsBrokenChainDenies ==
    \A c \in Chains, o \in RbacResources, a \in RbacActions :
        /\ (ChainEdges(c) \subseteq rbacG /\ <<c[4], o, a>> \in rbacP)
              => check_rbac_permission(c[1], o, a)
        /\ \A e \in ChainEdges(c) :
              (RevokedEdge(e) /\ rbacG \cup {e} = ChainEdges(c) /\ rbacP = {<<c[4], o, a>>})
                 => ~check_rbac_permission(c[1], o, a)
        /\ (RevokedGrant(<<c[4], o, a>>) /\ rbacG = ChainEdges(c) /\ rbacP \subseteq {<<c[4], o, a>>})
              => ~check_rbac_permission(c[1], o, a)

\* C3, reached: the chain and its grant were built, the subject was granted,
\* and one edge of the chain has just been revoked.
C3_Witness ==
    \E c \in Chains : \E e \in ChainEdges(c) :
        /\ RevokedEdge(e)
        /\ rbacG \cup {e} = ChainEdges(c)
        /\ e \notin rbacG
        /\ rbacP = {<<c[4], "documents", "read">>}

\* The subject holds no relationship edge.
HoldsNoEdge(username) ==
    \A i \in 1..Len(relationships) :
        ~("subject_id" \in DOMAIN relationships[i] /\ relationships[i].subject_id = username)

\* C4: check_access_path returns (TRUE, a path of two hops) for admin and
\* document:doc_001 under the two seeded edges, and (FALSE, no path) for a
\* subject that holds no relationship edge.
C4_TwoHopPathAndNoEdgeDenied ==
    last.op = "check_access_path" =>
        /\ last.outcome = "returned"
        /\ HoldsNoEdge(last.args[1]) => last.result = <<FALSE, <<>> >>
        /\ (Range(relationships) = RelationshipInputs /\ last.args[1] = "admin")
              => (last.result[1] /\ Len(last.result[2]) = 2)

\* An active row of abac_policies matches the request of the call in last.
SomePolicyMatches ==
    \E p \in Range(policies) :
        /\ p.is_active
        /\ _evaluate_policy_rules(p.rules, EvUserAttrs, EvResourceAttrs,
                                  last.args[2], last.args[3])

\* C5: a mutation that returned is seen by every later evaluation: a policy
\* created (and not deleted) that matches the request makes the evaluation
\* grant, and with every policy deleted no policy grants.
C5_MutationsVisibleToLaterEvaluations ==
    EvaluatePolicyReturned =>
        /\ SomePolicyMatches => EvGranted
        /\ policies = <<>> => ~EvGranted

\* C6: a finished check_permission call has evaluated RBAC, ABAC and ReBAC, in
\* that order, and hands back the three results, whatever RBAC and ABAC said.
C6_ThreeResultsInFixedOrder ==
    call.pc = "done" =>
        /\ call.outcome = "returned"
        /\ [i \in 1..Len(call.results) |-> call.results[i].model] = <<"rbac", "abac", "rebac">>

\* C7: in a check_permission result, granted_by lists exactly the models
\* whose result has has_permission = TRUE, and each of the three results has
\* a reason.
C7_GrantedByMatchesResults ==
    call.pc = "done" =>
        /\ call.outcome = "returned"
        /\ \A m \in {"rbac", "abac", "rebac"} :
              (m \in Range(call.granted_by)) <=>
                 (\E r \in Range(call.results) : r.model = m /\ r.has_permission)
        /\ \A m \in {"rbac", "abac", "rebac"} :
              \E r \in Range(call.results) : r.model = m /\ r.reason # <<>>

C9_MissingAttributeNeverMatches ==
    EvaluatePolicyReturned =>
        \A p \in Range(policies) :
            p.name \in Range(EvMatched) =>
                \A c \in Range(p.rules.conditions) :
                    c.attribute \in DOMAIN EvUserAttrs \cup DOMAIN EvResourceAttrs

\* The numeric operators
NumericOperators == {">", ">=", "<", "<="}

\* An active policy for the requested resource and action has a numeric
\* condition on the subject's level.
NumericConditionApplied ==
    \E p \in Range(policies) :
        /\ p.is_active
        /\ p.rules.permissions.resource = last.args[2]
        /\ p.rules.permissions.action = last.args[3]
        /\ \E c \in Range(p.rules.conditions) :
              c.attribute = "level" /\ c.operator \in NumericOperators

\* C10: when a numeric condition is applied to a level that is not a number,
\* the condition is false (its policy is not matched), the evaluation returns
\* a boolean, and that boolean is decided by the policies alone.
C10_MalformedNumberFailsClosed ==
    (/\ last.op = "evaluate_policy"
     /\ ~PyFloat(Get(EvUserAttrs, "level")).ok
     /\ NumericConditionApplied) =>
        /\ last.outcome = "returned"
        /\ EvGranted \in BOOLEAN
        /\ \A p \in Range(policies) :
              (\E c \in Range(p.rules.conditions) :
                    c.attribute = "level" /\ c.operator \in NumericOperators)
                 => p.name \notin Range(EvMatched)
        /\ EvGranted <=> EvMatched # <<>>

\* The number a value of Numerals stands for.
NumberOf(v) == (CHOOSE p \in Numerals : p[1] = v)[2]

C12_SubjectValueDecides ==
    EvaluatePolicyReturned =>
        \A p \in Range(policies) :
            p.name \in Range(EvMatched) =>
                \A c \in Range(p.rules.conditions) :
                    c.attribute \in DOMAIN EvUserAttrs =>
                        _compare_values(EvUserAttrs[c.attribute], c.operator, c.value)

\* The subject holds a user edge of a direct-access type on the resource.
HoldsDirectAccessEdge(username, resource) ==
    \E r \in Range(relationships) :
        /\ {"subject_type", "subject_id"} \subseteq DOMAIN r
        /\ r.subject_type = "user" /\ r.subject_id = username
        /\ <<r.resource_type, r.resource_id>> = ResourceParts(resource)
        /\ r.relationship_type \in {"owner_of", "member_of"}

C16_RevokeOfMissingRoleIsNotFound ==
    [][last'.op = "revoke_role_from_user" =>
          IF <<last'.args[1], last'.args[2]>> \in rbacG
          THEN /\ last'.result = 200
               /\ rbacG' = rbacG \ {<<last'.args[1], last'.args[2]>>}
               /\ rbacP' = rbacP
          ELSE /\ last'.result = 404
               /\ rbacG' = rbacG
               /\ rbacP' = rbacP]_vars

\* C16, reached: s reaches g3 through g1 and g2 only, and revoking g3 from s
\* was answered 404.
C16_Witness ==
    /\ last.op = "revoke_role_from_user"
    /\ last.args = <<"s", "g3">>
    /\ last.result = 404
    /\ rbacG = {<<"s", "g1">>, <<"g1", "g2">>, <<"g2", "g3">>}

\* The administration mutations, and how each of their ends reads: success,
\* not-found, already-exists, or something else.
MutationOps ==
    {"assign_role_to_user", "revoke_role_from_user", "assign_permission_to_role",
     "revoke_permission_from_role", "create_policy", "delete_policy"}
MutationOutcome ==
    CASE last.outcome = "http" /\ last.result \in {200, 201, 204} -> "success"
      [] last.outcome = "http" /\ last.result = 404 -> "not-found"
      [] last.outcome = "http" /\ last.result = 409 -> "already-exists"
      [] last.outcome = "returned" /\ last.op = "create_policy" -> "success"
      [] last.outcome = "returned" /\ last.op = "delete_policy" ->
            IF last.result THEN "success" ELSE "not-found"
      [] OTHER -> "other"

\* C17: every administration mutation ends in success, not-found or
\* already-exists; a grant of a triple the role has, and a policy of a name
\* that exists, end in already-exists.
C17_MutationsEndInOneOfThreeOutcomes ==
    last.op \in MutationOps =>
        MutationOutcome \in {"success", "not-found", "already-exists"}

\* The rows of resource_relationships that carry the given field values.
RowsWith(fields) ==
    {i \in 1..Len(relationships) :
        /\ DOMAIN fields \subseteq DOMAIN relationships[i]
        /\ \A k \in DOMAIN fields : relationships[i][k] = fields[k]}

\* C18: after create_relationship, called once or again with the same field
\* values, the table holds that edge exactly once.
C18_SameEdgeIsStoredOnce ==
    last.op = "create_relationship" => Cardinality(RowsWith(last.args[1])) = 1

\* C19: whatever the interleaving of set_user_attribute and
\* set_resource_attribute calls, user_attributes holds at most one row per
\* (user_id, attribute_key) and resource_attributes at most one row per
\* (resource_type, resource_id, attribute_key).
C19_OneRowPerKey ==
    /\ \A i, j \in 1..Len(userAttrs) :
          (userAttrs[i].user_id = userAttrs[j].user_id
           /\ userAttrs[i].attribute_key = userAttrs[j].attribute_key) => i = j
    /\ \A i, j \in 1..Len(resAttrs) :
          (resAttrs[i].resource_type = resAttrs[j].resource_type
           /\ resAttrs[i].resource_id = resAttrs[j].resource_id
           /\ resAttrs[i].attribute_key = resAttrs[j].attribute_key) => i = j

\* C20: when the enforcement call of check_rbac_permission,
\* check_abac_permission or check_rebac_permission fails, the caller gets an
\* error, not a boolean.
C20_EnforcementFailureIsAnError ==
    (/\ last.op \in {"check_rbac_permission", "check_abac_permission",
                     "check_rebac_permission"}
     /\ "enforce_raised" \in DOMAIN last
     /\ last.enforce_raised) => last.outcome = "raised"

\* An RBAC or ReBAC administration operation has just reported success.
RbacAdministration ==
    {"assign_role_to_user", "revoke_role_from_user", "assign_permission_to_role",
     "revoke_permission_from_role", "add_role_for_user", "delete_role_for_user",
     "add_permission_for_role", "delete_permission_for_role"}
RebacAdministration == {"add_resource_relationship", "delete_resource_relationship"}
AdministrationSucceeded ==
    /\ last.op \in RbacAdministration \cup RebacAdministration
    /\ IF last.outcome = "http" THEN last.result = 200 ELSE last.result = TRUE

\* C21: when an RBAC or ReBAC administration operation reports success, the
\* rows of the rule store are exactly the rules granted and not revoked, the
\* rules the enforcers hold: reloading the policy yields them.
C21_StoreHoldsWhatWasGranted ==
    AdministrationSucceeded =>
        casbin_rule = Rows(rbacG, rbacP) \cup Rows(rebacG, rebacP)

\* C22: a step of RBAC administration leaves the relationship facts as they
\* were, in memory and in the store; a step of ReBAC administration leaves
\* the memberships and the grants as they were, in memory and in the store;
\* no relationship fact is held as a role membership, and no role membership
\* as a relationship fact.
C22_RuleSetsAreIndependent ==
    [][/\ last'.op \in RbacAdministration =>
           /\ rebacG' = rebacG /\ rebacP' = rebacP
           /\ (Rows(rebacG, {}) \cap casbin_rule) \subseteq casbin_rule'
       /\ last'.op \in RebacAdministration =>
           /\ rbacG' = rbacG /\ rbacP' = rbacP
           /\ (Rows(rbacG, rbacP) \cap casbin_rule) \subseteq casbin_rule'
       /\ rbacG' \cap StoreRelationshipEdges = {}
       /\ rebacG' \cap StoreRoleEdges = {}]_vars

\* A step of an evaluation: one that ends check_rbac_permission,
\* evaluate_policy, check_access_path or check_permission, or one that takes
\* a check_permission call further.
EvaluationOps ==
    {"check_rbac_permission", "evaluate_policy", "check_access_path", "check_permission"}
EvaluationStep == last'.op \in EvaluationOps \/ call' # call

\* C23: a step of an evaluation leaves the role memberships, the grants, the
\* attribute rows, the ABAC policies and the relationship edges as they were,
\* in memory and in the store, whatever its verdict.
C23_EvaluationsAreReadOnly ==
    [][EvaluationStep =>
          UNCHANGED <<rbacVars, policies, policySeq, userAttrs, resAttrs, rebacVars,
                      storeVars, userRows>>]_vars

\* A check_permission call has ended over rule sets that are not empty.
C23_Witness ==
    /\ last.op = "check_permission"
    /\ call.pc = "done"
    /\ rbacG # {} /\ rbacP # {} /\ rebacG # {} /\ casbin_rule # {}
    /\ policies # <<>> /\ userAttrs # <<>>

\* C24: the membership edges hold no self-loop: no sequence of role
\* assignments produces an edge from a name to itself.
C24_NoSelfLoop == \A e \in rbacG : e[1] # e[2]

\* The caller is an admin: a superuser, or a holder of the role admin.
IsAdmin(id) ==
    UserOfId(id).is_superuser.v \/ "admin" \in get_roles_for_user(UserOfId(id).username)

\* C25: a delete_user request by an active caller who is neither an admin
\* nor the target, for an account that exists, is refused with 403 and the
\* target stays present and active.
C25_OthersAreRefused ==
    (/\ last.op = "delete_user"
     /\ last.args[1] # last.args[2]
     /\ userRows[last.args[1]].present /\ userRows[last.args[1]].is_active
     /\ ~IsAdmin(last.args[1])
     /\ userRows[last.args[2]].present)
    => (/\ last.outcome = "http" /\ last.result = 403
        /\ userRows[last.args[2]].is_active)

\* C26: a soft delete_user of the caller's own account either succeeds and
\* leaves the account inactive, or is rejected because the account is
\* inactive already (400) or gone (401), and then nothing is done.
C26_SelfDeleteThenRejected ==
    (/\ last.op = "delete_user"
     /\ last.args[1] = last.args[2]
     /\ last.args[3])
    => (/\ last.outcome = "http"
        /\ \/ last.result = 200 /\ ~userRows[last.args[1]].is_active
           \/ last.result = 400 /\ ~userRows[last.args[1]].is_active
           \/ last.result = 401 /\ ~userRows[last.args[1]].present)

\* C28: after deactivate_user has returned the user, the user has no role
\* and check_rbac_permission is false for the username, every resource and
\* every action.
C28_DeactivatedHasNoAccess ==
    (last.op = "deactivate_user" /\ last.result.t # "none") =>
        LET username == UserOfId(last.args[1]).username
        IN /\ get_roles_for_user(username) = {}
           /\ \A t \in AccountGrants : ~check_rbac_permission(username, t[2], t[3])

\* The parent links of the table, as <<child, parent>> pairs of resource keys.
ParentEdges ==
    {<<ResourceKey(r.resource_type, r.resource_id),
       ResourceKey(r.parent_resource_type, r.parent_resource_id)>> :
        r \in Range(relationships)}

====
